---- MODULE Spec2Model ----
(***************************************************************************)
(* Model of WeatherSerbiaCLI: the feed object of weatherserbiafeed.py (its *)
(* parse/update cycle and its three queries) and the entry extractor       *)
(* _extract_data_from_entry.                                               *)
(*                                                                         *)
(* Text is a sequence of one-character strings, so that str.split and      *)
(* str.strip are computed character by character as Python computes them.  *)
(* A Python float is the exact decimal [m, e] standing for m / 10^e with   *)
(* trailing fractional zeros removed, so "5", "5.0" and "5.00" are equal.   *)
(* The numeric texts of the model are plain signed decimals; the other     *)
(* spellings float() and int() accept (inf, nan, exponents, underscores,   *)
(* non-space whitespace) are not drawn.                                    *)
(***************************************************************************)
EXTENDS Integers, Sequences, FiniteSets, TLC

VARIABLES feed, status, op, arg, result, extracted,
          arguments, action, calls, printed, ended

\* The command line program around the feed object: the parsed command line,
\* the action chosen for it, the calls the action made on its feed object,
\* the lines it printed and how it ended.
cliVars == <<arguments, action, calls, printed, ended>>

vars == <<feed, status, op, arg, result, extracted, cliVars>>

(***************************************************************************)
(* Python values                                                           *)
(***************************************************************************)
\* None, and a value that is not None, kept comparable with each other.
None == <<>>
Some(v) == <<v>>

\* The three exceptions the feed module can raise on the modelled inputs.
IndexError == "IndexError"
ValueError == "ValueError"
AttributeError == "AttributeError"

(***************************************************************************)
(* str.split(sep), str.strip(' '), int() and float()                        *)
(***************************************************************************)
\* Index of the first occurrence of the character c in s, 0 when absent.
IndexOf(s, c) ==
    LET I == {i \in 1..Len(s) : s[i] = c}
    IN  IF I = {} THEN 0 ELSE CHOOSE i \in I : \A j \in I : i <= j

\* s.split(sep) for a one-character separator: every occurrence splits, and
\* empty pieces are kept ("a;b;" gives "a", "b", "").
RECURSIVE Split(_, _)
Split(s, sep) ==
    LET k == IndexOf(s, sep)
    IN  IF k = 0
        THEN <<s>>
        ELSE <<SubSeq(s, 1, k - 1)>> \o Split(SubSeq(s, k + 1, Len(s)), sep)

\* s.strip(' '): leading and trailing spaces removed, nothing else.
Strip(s) ==
    LET I == {i \in 1..Len(s) : s[i] # " "}
    IN  IF I = {}
        THEN <<>>
        ELSE SubSeq(s, CHOOSE i \in I : \A j \in I : i <= j,
                       CHOOSE i \in I : \A j \in I : i >= j)

Digits == {"0", "1", "2", "3", "4", "5", "6", "7", "8", "9"}

DigitVal(c) ==
    CASE c = "0" -> 0 [] c = "1" -> 1 [] c = "2" -> 2 [] c = "3" -> 3
      [] c = "4" -> 4 [] c = "5" -> 5 [] c = "6" -> 6 [] c = "7" -> 7
      [] c = "8" -> 8 [] c = "9" -> 9

AllDigits(s) == \A i \in 1..Len(s) : s[i] \in Digits

\* Value of a digit string, most significant digit first ("" is 0).
RECURSIVE DigitsVal(_)
DigitsVal(s) ==
    IF s = <<>> THEN 0
    ELSE 10 * DigitsVal(SubSeq(s, 1, Len(s) - 1)) + DigitVal(s[Len(s)])

HasSign(s) == s # <<>> /\ Head(s) \in {"+", "-"}
Unsigned(s) == IF HasSign(s) THEN Tail(s) ELSE s
SignOf(s) == IF s # <<>> /\ Head(s) = "-" THEN -1 ELSE 1

\* int(s): an optional sign and at least one digit; anything else raises
\* ValueError.
ParseInt(s) ==
    LET u == Unsigned(s)
    IN  IF u # <<>> /\ AllDigits(u)
        THEN [ok |-> TRUE, v |-> SignOf(s) * DigitsVal(u)]
        ELSE [ok |-> FALSE, v |-> 0]

\* The decimal m / 10^e without trailing fractional zeros.
RECURSIVE Normal(_, _)
Normal(m, e) ==
    IF e > 0 /\ m % 10 = 0 THEN Normal(m \div 10, e - 1) ELSE [m |-> m, e |-> e]

\* float(s): an optional sign, then digits with an optional point and
\* fraction ("5", "5.", "5.25", ".5"); anything else raises ValueError.
ParseFloat(s) ==
    LET u == Unsigned(s)
        k == IndexOf(u, ".")
        ip == IF k = 0 THEN u ELSE SubSeq(u, 1, k - 1)
        fp == IF k = 0 THEN <<>> ELSE SubSeq(u, k + 1, Len(u))
    IN  IF AllDigits(ip) /\ AllDigits(fp) /\ Len(ip) + Len(fp) > 0
        THEN [ok |-> TRUE,
              v |-> Normal(SignOf(s) * DigitsVal(ip \o fp), Len(fp))]
        ELSE [ok |-> FALSE, v |-> Normal(0, 0)]

(***************************************************************************)
(* _WeatherStationData and _extract_data_from_entry                        *)
(***************************************************************************)
\* The attributes of _WeatherStationData, in the order lines 86-100 assign
\* them.
FieldNames ==
    <<"stationName", "stationID", "tempVal", "tempUnits", "pressureVal",
      "pressureUnits", "windDirection", "windSpeedVal", "windSpeedUnits",
      "humidityVal", "humidityUnits", "weatherDescription",
      "weatherDescriptionID", "snowThicknessVal", "snowThicknessUnits">>

Fields == {FieldNames[i] : i \in 1..Len(FieldNames)}

FieldPos(f) == CHOOSE i \in 1..Len(FieldNames) : FieldNames[i] = f

\* The object after the first n of the assignments `assign` have run: the
\* attributes not yet assigned still hold None.
Observed(assign, n) ==
    [f \in Fields |-> IF FieldPos(f) <= n THEN Some(assign[FieldPos(f)].v)
                      ELSE None]

\* _WeatherStationData(): every attribute is None.
NewStationData == Observed(<<>>, 0)

\* What a call hands to its caller.
Raise(e) == [kind |-> "error", val |-> e]
Return(kind, v) == [kind |-> kind, val |-> v]

\* seq[i] of a Python list (i counted from 1 here): IndexError past the end.
ItemAt(seq, i) ==
    IF i <= Len(seq) THEN [ok |-> TRUE, err |-> IndexError, v |-> seq[i]]
    ELSE [ok |-> FALSE, err |-> IndexError, v |-> <<>>]

\* text.split(':')[1]: the piece between the first and the second colon.
AfterColon(text) == ItemAt(Split(text, ":"), 2)

\* A segment read with a default: a missing segment, or one without a colon,
\* reads as the empty text.
ValueOfLenient(csvData, i) ==
    IF i <= Len(csvData) /\ Len(Split(csvData[i], ":")) >= 2
    THEN AfterColon(csvData[i])
    ELSE [ok |-> TRUE, err |-> IndexError, v |-> <<>>]

\* csvData[i - 1].split(':')[1], the value of the i-th segment.
ValueOf(csvData, i) ==
    IF i <= Len(csvData) THEN AfterColon(csvData[i])
    ELSE [ok |-> FALSE, err |-> IndexError, v |-> <<>>]

\* value.strip(' ').split(' ')
Tokens(value) == Split(Strip(value), " ")

\* entry.title.split(':')[1].strip(' '), as the extractor, stations() and
\* observed_data_by_station() all compute it.
StationName(title) ==
    LET r == AfterColon(title) IN [ok |-> r.ok, err |-> r.err, v |-> Strip(r.v)]

Dash == <<"-">>
ZeroText == <<"0">>
MetresPerSecond == <<"m", "/", "s">>
Centimetres == <<"c", "m">>

\* The wind speed segment read whatever the direction is.
WindSpeedAlways(windd, csvData) ==
    LET r == ValueOf(csvData, 5)
    IN  [ok |-> r.ok, err |-> r.err, v |-> Tokens(r.v)]

\* Lines 69-72: no wind is written '-', and then the wind speed segment is
\* not read at all.
WindSpeed(windd, csvData) ==
    IF Dash = Strip(windd)
    THEN [ok |-> TRUE, err |-> IndexError, v |-> <<ZeroText, MetresPerSecond>>]
    ELSE LET r == ValueOf(csvData, 5)
         IN  [ok |-> r.ok, err |-> r.err, v |-> Tokens(r.v)]

\* The bare-unit test as a containment test: any value that names the unit.
SnowUnitAnywhere(csvData) ==
    LET r == ValueOf(csvData, 8)
        tokens == Tokens(r.v)
    IN  IF r.ok /\ \E i \in 1..Len(tokens) : tokens[i] = Centimetres
        THEN [ok |-> TRUE, err |-> IndexError, v |-> <<ZeroText, Centimetres>>]
        ELSE [ok |-> r.ok, err |-> r.err, v |-> tokens]

\* Lines 79-82: no snow is written as the bare unit.
Snow(csvData) ==
    LET r == ValueOf(csvData, 8)
    IN  IF r.ok /\ Centimetres = Strip(r.v)
        THEN [ok |-> TRUE, err |-> IndexError, v |-> <<ZeroText, Centimetres>>]
        ELSE [ok |-> r.ok, err |-> r.err, v |-> Tokens(r.v)]

\* int(text) and float(text) as one assignment's right-hand side.
IntOf(text) ==
    LET r == ParseInt(text) IN [ok |-> r.ok, err |-> ValueError, v |-> r.v]
FloatOf(text) ==
    LET r == ParseFloat(text) IN [ok |-> r.ok, err |-> ValueError, v |-> r.v]
TextOf(text) == [ok |-> TRUE, err |-> ValueError, v |-> text]

\* The number of assignments that complete before one raises.
Completed(assign) ==
    LET Bad == {i \in 1..Len(assign) : ~assign[i].ok}
    IN  IF Bad = {} THEN Len(assign)
        ELSE (CHOOSE i \in Bad : \A j \in Bad : i <= j) - 1

\* The function ending with its exceptions swallowed: whatever was assigned
\* so far is returned.
FinishSwallowing(raised, observed) == Return("record", observed)

\* How the function ends: an exception raised anywhere leaves it (there is no
\* try block), and `observed` is returned at line 102 only when none was.
Finish(raised, observed) ==
    IF raised = None THEN Return("record", observed) ELSE Raise(raised[1])

\* _extract_data_from_entry(entry).
Extract(entry) ==
    LET csvData == Split(entry.summary, ";")
        name == AfterColon(entry.title)
        id == ValueOf(csvData, 1)
        temp == ValueOf(csvData, 2)
        press == ValueOf(csvData, 3)
        windd == ValueOf(csvData, 4)
        winds == WindSpeed(windd.v, csvData)
        hum == ValueOf(csvData, 6)
        desc == ValueOf(csvData, 7)
        snow == Snow(csvData)
        descid == ValueOf(csvData, 9)
        \* lines 61-84, in order; each can only raise IndexError
        lookups == <<name, id, temp, press, windd, winds, hum, desc, snow,
                     descid>>
        \* lines 86-100, in order
        assign ==
            <<TextOf(Strip(name.v)),
              IntOf(Strip(id.v)),
              FloatOf(Tokens(temp.v)[1]),
              ItemAt(Tokens(temp.v), 2),
              FloatOf(Tokens(press.v)[1]),
              ItemAt(Tokens(press.v), 2),
              TextOf(Strip(windd.v)),
              FloatOf(winds.v[1]),
              ItemAt(winds.v, 2),
              FloatOf(Tokens(hum.v)[1]),
              ItemAt(Tokens(hum.v), 2),
              TextOf(Strip(desc.v)),
              IntOf(Strip(descid.v)),
              FloatOf(snow.v[1]),
              ItemAt(snow.v, 2)>>
        n == Completed(assign)
    IN  IF Completed(lookups) < Len(lookups)
        THEN Finish(Some(IndexError), NewStationData)
        ELSE IF n < Len(assign)
        THEN Finish(Some(assign[n + 1].err), Observed(assign, n))
        ELSE Finish(None, Observed(assign, n))

(***************************************************************************)
(* WeatherSerbiaFeed: stations(), observed_data(), observed_data_by_station *)
(***************************************************************************)
\* What a query did: what it handed back, and the positions (in feed order)
\* of the entries it ran the extractor on.
Did(out, ran) == [out |-> out, ran |-> ran]

\* stations(): one name per entry, appended in feed order; a title without
\* a colon raises IndexError out of the loop.
RECURSIVE StationsLoop(_, _, _)
StationsLoop(entries, i, stations) ==
    IF i > Len(entries) THEN Did(Return("list", stations), <<>>)
    ELSE LET station == StationName(entries[i].title)
         IN  IF ~station.ok THEN Did(Raise(station.err), <<>>)
             ELSE StationsLoop(entries, i + 1, Append(stations, station.v))

\* A listing that keeps one copy of each name.
RECURSIVE StationsDistinctLoop(_, _, _)
StationsDistinctLoop(entries, i, stations) ==
    IF i > Len(entries) THEN Did(Return("list", stations), <<>>)
    ELSE LET station == StationName(entries[i].title)
             seen == {stations[k] : k \in 1..Len(stations)}
         IN  IF ~station.ok THEN Did(Raise(station.err), <<>>)
             ELSE StationsDistinctLoop(entries, i + 1,
                      IF station.v \in seen THEN stations
                      ELSE Append(stations, station.v))

StationsDistinct(entries) == StationsDistinctLoop(entries, 1, <<>>)

\* A listing that takes each name from the extracted record.
RECURSIVE StationsExtractingLoop(_, _, _)
StationsExtractingLoop(entries, i, stations) ==
    IF i > Len(entries) THEN Did(Return("list", stations), <<>>)
    ELSE LET observed == Extract(entries[i])
         IN  IF observed.kind = "error" THEN Did(observed, <<>>)
             ELSE StationsExtractingLoop(entries, i + 1,
                      Append(stations, observed.val.stationName[1]))

StationsExtracting(entries) == StationsExtractingLoop(entries, 1, <<>>)

StationsOf(entries) == StationsLoop(entries, 1, <<>>)

\* observed_data(): the extractor on every entry in feed order; the first
\* entry that fails ends the call with its exception.
RECURSIVE ObservedDataLoop(_, _, _)
ObservedDataLoop(entries, i, stations) ==
    IF i > Len(entries)
    THEN Did(Return("records", stations), [k \in 1..Len(entries) |-> k])
    ELSE LET observed == Extract(entries[i])
         IN  IF observed.kind = "error"
             THEN Did(observed, [k \in 1..i |-> k])
             ELSE ObservedDataLoop(entries, i + 1,
                                   Append(stations, observed.val))

ObservedDataOf(entries) == ObservedDataLoop(entries, 1, <<>>)

\* observed_data_by_station(stationName): scan in feed order, extract the
\* first entry whose name matches and break; None when the loop runs out.
RECURSIVE ByStationLoop(_, _, _)
ByStationLoop(entries, stationName, i) ==
    IF i > Len(entries) THEN Did(Return("none", None), <<>>)
    ELSE LET name == StationName(entries[i].title)
         IN  IF ~name.ok THEN Did(Raise(name.err), <<>>)
             ELSE IF name.v = stationName
             THEN Did(Extract(entries[i]), <<i>>)
             ELSE ByStationLoop(entries, stationName, i + 1)

\* The scan without its break: every matching entry is extracted and the
\* last one is kept.
RECURSIVE ByStationNoBreakLoop(_, _, _, _)
ByStationNoBreakLoop(entries, stationName, i, did) ==
    IF i > Len(entries) THEN did
    ELSE LET name == StationName(entries[i].title)
             observed == Extract(entries[i])
         IN  IF ~name.ok THEN Did(Raise(name.err), did.ran)
             ELSE IF name.v # stationName
             THEN ByStationNoBreakLoop(entries, stationName, i + 1, did)
             ELSE IF observed.kind = "error"
             THEN Did(observed, Append(did.ran, i))
             ELSE ByStationNoBreakLoop(entries, stationName, i + 1,
                                       Did(observed, Append(did.ran, i)))

ByStationNoBreak(entries, stationName) ==
    ByStationNoBreakLoop(entries, stationName, 1, Did(Return("none", None), <<>>))

\* The scan with extraction failures skipped: a matching entry that does not
\* extract is passed over.
RECURSIVE ByStationSkippingLoop(_, _, _, _)
ByStationSkippingLoop(entries, stationName, i, ran) ==
    IF i > Len(entries) THEN Did(Return("none", None), ran)
    ELSE LET name == StationName(entries[i].title)
             observed == Extract(entries[i])
         IN  IF ~name.ok THEN Did(Raise(name.err), ran)
             ELSE IF name.v # stationName
             THEN ByStationSkippingLoop(entries, stationName, i + 1, ran)
             ELSE IF observed.kind = "error"
             THEN ByStationSkippingLoop(entries, stationName, i + 1,
                                        Append(ran, i))
             ELSE Did(observed, Append(ran, i))

ByStationSkipping(entries, stationName) ==
    ByStationSkippingLoop(entries, stationName, 1, <<>>)

ByStation(entries, stationName) == ByStationLoop(entries, stationName, 1)

(***************************************************************************)
(* Feed entries                                                            *)
(*                                                                         *)
(* title is "Label: StationName"; summary is nine "Label: value" segments, *)
(* each closed by ';' (weatherserbiafeed.py lines 54-60 and 392-394).      *)
(* Labels are shortened; the code never reads them.                        *)
(***************************************************************************)
Seg(label, value) == label \o <<":">> \o value

RECURSIVE Summary(_)
Summary(segs) ==
    IF segs = <<>> THEN <<>> ELSE Head(segs) \o <<";">> \o Summary(Tail(segs))

Entry(title, summary) == [title |-> title, summary |-> summary]

LabelId == <<"I", "D">>
LabelTemp == <<" ", "T">>
LabelPress == <<" ", "P">>
LabelWindDir == <<" ", "W", "D">>
LabelWindSpeed == <<" ", "W", "S">>
LabelHum == <<" ", "H">>
LabelDesc == <<" ", "D">>
LabelSnow == <<" ", "S", "N">>
LabelDescId == <<" ", "D", "I">>

IdGood == Seg(LabelId, <<" ", "1", "3", "2", "7", "4">>)
IdOther == Seg(LabelId, <<" ", "1", "3", "3", "8", "8">>)
IdNotInt == Seg(LabelId, <<" ", "1", "x">>)
TempGood == Seg(LabelTemp, <<" ", "5", " ", "C">>)
TempOther == Seg(LabelTemp, <<" ", "-", "2", ".", "5", " ", "C">>)
TempNoUnit == Seg(LabelTemp, <<" ", "5">>)
PressGood == Seg(LabelPress, <<" ", "1", "0", "1", "3", ".", "2", " ", "h", "P", "a">>)
WindDirNone == Seg(LabelWindDir, <<" ", "-">>)
WindDirNonePadded == Seg(LabelWindDir, <<" ", " ", "-", " ", " ">>)
WindDirNorth == Seg(LabelWindDir, <<" ", "N">>)
WindSpeedGood == Seg(LabelWindSpeed, <<" ", "3", " ", "m", "/", "s">>)
WindSpeedNotFloat == Seg(LabelWindSpeed, <<" ", "c", "a", "l", "m">>)
WindSpeedNoColon == LabelWindSpeed
HumGood == Seg(LabelHum, <<" ", "8", "0", " ", "%">>)
DescGood == Seg(LabelDesc, <<" ", "C", "l", "o", "u", "d", "y">>)
SnowNone == Seg(LabelSnow, <<" ", "c", "m">>)
SnowNonePadded == Seg(LabelSnow, <<" ", " ", "c", "m", " ">>)
SnowGood == Seg(LabelSnow, <<" ", "2", ".", "5", "0", " ", "c", "m">>)
SnowNotFloat == Seg(LabelSnow, <<" ", "d", "e", "e", "p">>)
DescIdGood == Seg(LabelDescId, <<" ", "3">>)
DescIdNotInt == Seg(LabelDescId, <<" ", "x">>)

TitleNis == <<"S", "t", ":", " ", "N", "i", "s">>
TitleNisPadded == <<"S", "t", ":", "N", "i", "s", " ", " ">>
TitleBor == <<"S", "t", ":", " ", "B", "o", "r">>
TitleTwoColons == <<"S", "t", ":", " ", "N", "i", "s", ":", "B", "o", "r">>
TitleNoName == <<"S", "t", ":">>
TitleSpaces == <<"S", "t", ":", " ", " ">>
TitleNoColon == <<"S", "t", "N", "i", "s">>

Nis == <<"N", "i", "s">>
Bor == <<"B", "o", "r">>
Ub == <<"U", "b">>
NisLower == <<"n", "i", "s">>
Empty == <<>>

\* The summaries the single-entry specification draws: every combination of
\* the segment variants, and two summaries that are too short.
SummaryGood ==
    Summary(<<IdGood, TempGood, PressGood, WindDirNorth, WindSpeedGood,
              HumGood, DescGood, SnowNone, DescIdGood>>)
SummaryOther ==
    Summary(<<IdOther, TempOther, PressGood, WindDirNone, WindSpeedNotFloat,
              HumGood, DescGood, SnowGood, DescIdGood>>)
SummaryEightSegments ==
    Summary(<<IdGood, TempGood, PressGood, WindDirNorth, WindSpeedGood,
              HumGood, DescGood, SnowNone>>)
SummaryThreeSegments == Summary(<<IdGood, TempGood, PressGood>>)
SummaryNotInt ==
    Summary(<<IdNotInt, TempGood, PressGood, WindDirNorth, WindSpeedGood,
              HumGood, DescGood, SnowNone, DescIdGood>>)

Summaries ==
    {Summary(<<id, temp, PressGood, windd, winds, HumGood, DescGood, snow,
               descid>>) :
        id \in {IdGood, IdNotInt},
        temp \in {TempGood, TempNoUnit},
        windd \in {WindDirNone, WindDirNonePadded, WindDirNorth},
        winds \in {WindSpeedGood, WindSpeedNotFloat, WindSpeedNoColon},
        snow \in {SnowNone, SnowNonePadded, SnowGood, SnowNotFloat},
        descid \in {DescIdGood, DescIdNotInt}}
    \cup {SummaryEightSegments, SummaryThreeSegments, Empty}

Titles ==
    {TitleNis, TitleNisPadded, TitleBor, TitleTwoColons, TitleNoName,
     TitleSpaces, TitleNoColon}

\* Feeds of one entry.
SingleFeeds == {<<Entry(title, summary)>> : title \in Titles, summary \in Summaries}

\* The entries the feeds of several entries are made of.
EntryPool ==
    {Entry(TitleNis, SummaryGood), Entry(TitleNisPadded, SummaryOther),
     Entry(TitleNis, SummaryThreeSegments),
     Entry(TitleBor, SummaryOther), Entry(TitleBor, SummaryNotInt),
     Entry(TitleTwoColons, SummaryGood), Entry(TitleNoColon, SummaryGood)}

MaxEntries == 2

Feeds == UNION {[1..n -> EntryPool] : n \in 0..MaxEntries}

\* The station names asked for.
Names == {Nis, NisLower, Bor, Ub}

(***************************************************************************)
(* The feed object                                                         *)
(***************************************************************************)
\* WeatherSerbiaFeed(): nothing fetched, status unset.
Init ==
    /\ feed = None
    /\ status = None
    /\ op = "init"
    /\ arg = None
    /\ result = Return("none", None)
    /\ extracted = <<>>
    /\ arguments = None
    /\ action = None
    /\ calls = <<>>
    /\ printed = <<>>
    /\ ended = "no"

\* parse(): feedparser hands back the entries it decoded and its bozo flag
\* (0: well formed, 1: not); both replace what the object held.
ParseFrom(fetched, name) ==
    \E entries \in fetched, bozo \in {0, 1} :
        /\ feed' = Some(entries)
        /\ status' = Some(bozo)
        /\ op' = name
        /\ arg' = None
        /\ result' = Return("none", None)
        /\ extracted' = <<>>
        /\ UNCHANGED cliVars

Parse == ParseFrom(Feeds, "parse")

\* update() is parse().
Update == ParseFrom(Feeds, "update")

\* self._feed.entries of an object never parsed: None has no attribute.
Query(name, a, did) ==
    /\ op' = name
    /\ arg' = a
    /\ result' = did.out
    /\ extracted' = did.ran
    /\ UNCHANGED <<feed, status, cliVars>>

NotParsed == Did(Raise(AttributeError), <<>>)

Stations ==
    Query("stations", None,
          IF feed = None THEN NotParsed ELSE StationsOf(feed[1]))

ObservedData ==
    Query("observed_data", None,
          IF feed = None THEN NotParsed ELSE ObservedDataOf(feed[1]))

ObservedDataByStation(stationName) ==
    Query("observed_data_by_station", Some(stationName),
          IF feed = None THEN NotParsed ELSE ByStation(feed[1], stationName))

Next ==
    \/ Parse
    \/ Update
    \/ Stations
    \/ ObservedData
    \/ \E stationName \in Names : ObservedDataByStation(stationName)

Spec == Init /\ [][Next]_vars

\* The same object right after a parse() that delivered one entry, over every
\* title and summary variant, and then queried.
InitSingle ==
    /\ feed \in {Some(entries) : entries \in SingleFeeds}
    /\ status \in {Some(0), Some(1)}
    /\ op = "parse"
    /\ arg = None
    /\ result = Return("none", None)
    /\ extracted = <<>>
    /\ arguments = None
    /\ action = None
    /\ calls = <<>>
    /\ printed = <<>>
    /\ ended = "no"

NextSingle ==
    \/ Stations
    \/ ObservedData
    \/ \E stationName \in {Nis, Empty} : ObservedDataByStation(stationName)

SpecSingle == InitSingle /\ [][NextSingle]_vars

(***************************************************************************)
(* weatherserbiacli.py: CommandLineApp.parse_args, run and the actions     *)
(***************************************************************************)
\* The station value that FetchData takes as "list the stations".
All == <<"a", "l", "l">>

\* ord() of the characters station names are made of.
CodePoint(c) ==
    CASE c = " " -> 32 [] c = ":" -> 58 [] c = "B" -> 66 [] c = "N" -> 78
      [] c = "S" -> 83 [] c = "U" -> 85 [] c = "a" -> 97 [] c = "b" -> 98
      [] c = "i" -> 105 [] c = "l" -> 108 [] c = "n" -> 110 [] c = "o" -> 111
      [] c = "r" -> 114 [] c = "s" -> 115 [] c = "t" -> 116

\* a < b on str: the first differing character decides, a prefix is smaller.
RECURSIVE TextLess(_, _)
TextLess(a, b) ==
    IF a = <<>> THEN b # <<>>
    ELSE IF b = <<>> THEN FALSE
    ELSE IF Head(a) = Head(b) THEN TextLess(Tail(a), Tail(b))
    ELSE CodePoint(Head(a)) < CodePoint(Head(b))

\* sorted(texts)
RECURSIVE Insert(_, _)
Insert(sorted, x) ==
    IF sorted = <<>> THEN <<x>>
    ELSE IF TextLess(x, Head(sorted)) THEN <<x>> \o sorted
    ELSE <<Head(sorted)>> \o Insert(Tail(sorted), x)

RECURSIVE Sorted(_)
Sorted(texts) ==
    IF texts = <<>> THEN <<>>
    ELSE Insert(Sorted(SubSeq(texts, 1, Len(texts) - 1)), texts[Len(texts)])

\* One print(): what the line is and the texts put into it (the renderings
\* of numbers are left out of a line).
Line(kind, args) == [kind |-> kind, args |-> args]

Blank == Line("blank", <<>>)

NameLines(stations) ==
    [i \in 1..Len(stations) |-> Line("name", <<stations[i]>>)]

\* '{1}'.format(..., feed.status)
StatusText(bozo) == IF bozo = 0 THEN <<"0">> ELSE <<"1">>

\* _WeatherStationData.display_data(): five lines, then the wind and the
\* snow line when their values are not 0.
DisplayData(data) ==
    <<Line("station", <<data.stationName[1]>>),
      Line("description", <<data.weatherDescription[1]>>),
      Line("temperature", <<data.tempUnits[1]>>),
      Line("pressure", <<data.pressureUnits[1]>>),
      Line("humidity", <<data.humidityUnits[1]>>)>>
    \o (IF data.windSpeedVal[1] # Normal(0, 0)
        THEN <<Line("wind", <<data.windDirection[1], data.windSpeedUnits[1]>>)>>
        ELSE <<>>)
    \o (IF data.snowThicknessVal[1] # Normal(0, 0)
        THEN <<Line("snow", <<data.snowThicknessUnits[1]>>)>>
        ELSE <<>>)

\* A call made on the feed object and how it came back.
Call(name, a, kind) == [name |-> name, arg |-> a, kind |-> kind]

Ran(made, lines, end, name, a, did) ==
    [calls |-> made, printed |-> lines, ended |-> end,
     op |-> name, arg |-> a, did |-> did]

\* The calls FetchData.execute() makes, in its order.
ParseCall == Call("parse", None, "none")
StationsCall(s) == Call("stations", None, s.out.kind)
LookupCall(station, d) ==
    Call("observed_data_by_station", Some(station), d.out.kind)

\* Lines 338-341: the sorted listing; s is what stations() did.
Listing(s) ==
    IF s.out.kind = "error"
    THEN Ran(<<ParseCall, StationsCall(s)>>, <<>>, "uncaught",
             "stations", None, s)
    ELSE Ran(<<ParseCall, StationsCall(s)>>,
             NameLines(Sorted(s.out.val)) \o <<Blank>>, "exit",
             "stations", None, s)

\* Lines 344-357: the lookup; d is what observed_data_by_station(station)
\* did and s what stations() does when the lookup returns None.
Lookup(station, d, s) ==
    IF d.out.kind = "error"
    THEN Ran(<<ParseCall, LookupCall(station, d)>>, <<>>, "uncaught",
             "observed_data_by_station", Some(station), d)
    ELSE IF d.out.kind = "none"
    THEN Ran(<<ParseCall, LookupCall(station, d), StationsCall(s)>>,
             <<Line("not available", <<station>>), Line("available for", <<>>)>>
                 \o (IF s.out.kind = "error" THEN <<>>
                     ELSE NameLines(Sorted(s.out.val)) \o <<Blank>>),
             IF s.out.kind = "error" THEN "uncaught" ELSE "exit",
             "stations", None, s)
    ELSE Ran(<<ParseCall, LookupCall(station, d)>>,
             DisplayData(d.out.val) \o <<Blank>>, "exit",
             "observed_data_by_station", Some(station), d)

\* FetchData.execute() on what the fetch delivers: parse(), the status
\* test, then the listing or the lookup. An exception out of a query is not
\* caught anywhere, so it ends the program with nothing more printed; every
\* other path ends in self._exit_app().
Execute(station, entries, bozo) ==
    IF 0 # bozo
    THEN Ran(<<ParseCall>>, <<Line("error", <<StatusText(bozo)>>)>>, "exit",
             "parse", None, Did(Return("none", None), <<>>))
    ELSE IF All = station
    THEN Listing(StationsOf(entries))
    ELSE Lookup(station, ByStation(entries, station), StationsOf(entries))

\* The command lines: the flags, and -S/--station with its one value
\* (argparse stores it as a list of one text, None when the option is absent).
StationArguments == {Nis, Ub, All, Empty}

Arguments ==
    [usage : BOOLEAN, version : BOOLEAN, list_stations : BOOLEAN,
     station : {None} \cup {Some(S) : S \in StationArguments}]

ActionOf(class, station) == [class |-> class, station |-> station]

\* The if/elif chain of parse_args: usage, version, list_stations, station
\* (a list of one text is true whatever the text), else usage.
ActionFor(a) ==
    IF a.usage THEN ActionOf("ProgramUsageAction", None)
    ELSE IF a.version THEN ActionOf("ShowVersionAction", None)
    ELSE IF a.list_stations THEN ActionOf("FetchData", Some(All))
    ELSE IF a.station # None THEN ActionOf("FetchData", Some(a.station[1]))
    ELSE ActionOf("ProgramUsageAction", None)

\* program.parse_args()
ParseArgs ==
    /\ arguments = None
    /\ \E a \in Arguments :
           /\ arguments' = Some(a)
           /\ action' = Some(ActionFor(a))
    /\ UNCHANGED <<feed, status, op, arg, result, extracted, calls, printed,
                   ended>>

\* program.run() with a ProgramUsageAction or a ShowVersionAction: one
\* message, then exit.
MessageExecute(class, kind) ==
    /\ action # None
    /\ action[1].class = class
    /\ ended = "no"
    /\ printed' = <<Line(kind, <<>>)>>
    /\ ended' = "exit"
    /\ UNCHANGED <<feed, status, op, arg, result, extracted, arguments,
                   action, calls>>

UsageExecute == MessageExecute("ProgramUsageAction", "usage")

VersionExecute == MessageExecute("ShowVersionAction", "version")

\* The state FetchData.execute() leaves behind.
Executed(entries, bozo, x) ==
    /\ feed' = Some(entries)
    /\ status' = Some(bozo)
    /\ op' = x.op
    /\ arg' = x.arg
    /\ result' = x.did.out
    /\ extracted' = x.did.ran
    /\ calls' = x.calls
    /\ printed' = x.printed
    /\ ended' = x.ended
    /\ UNCHANGED <<arguments, action>>

\* program.run() with a FetchData action: it makes its own feed object and
\* runs to its end.
FetchExecute ==
    /\ action # None
    /\ action[1].class = "FetchData"
    /\ ended = "no"
    /\ \E entries \in Feeds, bozo \in {0, 1} :
           Executed(entries, bozo,
                    Execute(action[1].station[1], entries, bozo))

NextCli ==
    \/ ParseArgs
    \/ UsageExecute
    \/ VersionExecute
    \/ FetchExecute

SpecCli == Init /\ [][NextCli]_vars

(***************************************************************************)
(* Vocabulary of the properties                                            *)
(***************************************************************************)
Parsed == feed # None
Entries == feed[1]

HasColon(text) == IndexOf(text, ":") > 0

\* The whole text after the first colon.
AfterFirstColon(text) == SubSeq(text, IndexOf(text, ":") + 1, Len(text))

\* The value portion of the i-th segment of a summary, trimmed; None when
\* the summary has no such segment or the segment has no colon.
SegmentValue(summary, i) ==
    LET segs == Split(summary, ";")
    IN  IF i <= Len(segs) /\ HasColon(segs[i])
        THEN Some(Strip(AfterFirstColon(segs[i])))
        ELSE None

\* The records the last call handed to its caller; the i-th of them was
\* extracted from the entry at position extracted[i].
Returned ==
    IF result.kind = "record" THEN <<result.val>>
    ELSE IF result.kind = "records" THEN result.val
    ELSE <<>>

SourceOf(i) == Entries[extracted[i]]

Extracting == op \in {"observed_data", "observed_data_by_station"}

FloatZero == Normal(0, 0)

\* C1. Wind sentinel law: whenever a record is returned for an entry whose
\* wind-direction segment (the 4th) has a value that trims to "-", the record
\* has windDirection "-", windSpeedVal 0 and windSpeedUnits "m/s", whatever
\* the wind-speed segment (the 5th) holds.
WindSentinelLaw ==
    Extracting =>
        \A i \in 1..Len(Returned) :
            SegmentValue(SourceOf(i).summary, 4) = Some(Dash) =>
                /\ Returned[i].windDirection = Some(Dash)
                /\ Returned[i].windSpeedVal = Some(FloatZero)
                /\ Returned[i].windSpeedUnits = Some(MetresPerSecond)

\* C1 witness: a record was returned for an entry with wind direction "-"
\* whose wind-speed segment is not a number at all.
WindSentinelSeen ==
    /\ op = "observed_data"
    /\ Parsed
    /\ result.kind = "records"
    /\ Len(result.val) = 1
    /\ SegmentValue(Entries[1].summary, 4) = Some(Dash)
    /\ Split(Entries[1].summary, ";")[5] \in {WindSpeedNotFloat, WindSpeedNoColon}
    /\ result.val[1].windSpeedVal = Some(FloatZero)

\* C2. Snow sentinel law: whenever a record is returned for an entry whose
\* snow segment (the 8th) has a value that trims to exactly "cm", the record
\* has snowThicknessVal 0 and snowThicknessUnits "cm"; for any other snow
\* value the record holds the number and the unit written in the segment.
SnowSentinelLaw ==
    Extracting =>
        \A i \in 1..Len(Returned) :
            LET value == SegmentValue(SourceOf(i).summary, 8)
                tokens == Split(value[1], " ")
            IN  /\ value # None
                /\ IF value = Some(Centimetres)
                   THEN /\ Returned[i].snowThicknessVal = Some(FloatZero)
                        /\ Returned[i].snowThicknessUnits = Some(Centimetres)
                   ELSE /\ Len(tokens) >= 2
                        /\ ParseFloat(tokens[1]).ok
                        /\ Returned[i].snowThicknessVal
                               = Some(ParseFloat(tokens[1]).v)
                        /\ Returned[i].snowThicknessUnits = Some(tokens[2])

\* C2 witness: a record was returned for an entry whose snow value is the
\* bare unit with spaces around it.
SnowSentinelSeen ==
    /\ op = "observed_data"
    /\ Parsed
    /\ result.kind = "records"
    /\ Len(result.val) = 1
    /\ Split(Entries[1].summary, ";")[8] = SnowNonePadded
    /\ result.val[1].snowThicknessVal = Some(FloatZero)
    /\ result.val[1].snowThicknessUnits = Some(Centimetres)

\* C3. Extraction is all-or-nothing: every record handed back by
\* observed_data() or observed_data_by_station() has all 15 attributes set,
\* and a call in which an extraction fails hands back an error and no record.
AllOrNothing ==
    Extracting =>
        /\ result.kind \in {"record", "records", "error", "none"}
        /\ \A i \in 1..Len(Returned) :
               /\ DOMAIN Returned[i] = Fields
               /\ \A f \in Fields : Returned[i][f] # None
        /\ (\E i \in 1..Len(extracted) :
                Extract(Entries[extracted[i]]).kind = "error")
               => result.kind = "error"
        /\ result.kind = "records" => Len(result.val) = Len(Entries)

\* C3 witness: an extraction failed on its last conversions, after the
\* earlier ones had succeeded, and the caller received the error alone.
FailedMidway ==
    /\ op = "observed_data"
    /\ Parsed
    /\ HasColon(Entries[1].title)
    /\ \E windd \in {WindDirNone, WindDirNorth} :
           Entries[1].summary =
               Summary(<<IdGood, TempGood, PressGood, windd, WindSpeedGood,
                         HumGood, DescGood, SnowGood, DescIdNotInt>>)
    /\ result = Raise(ValueError)

\* C4. For every entry that extracts and whose title has a colon (titles
\* with several colons included), stationName is the whole text after the
\* first colon of the title, trimmed; stations() lists the name the extractor
\* gives, and a record found by name carries the name asked for.
NameIsTextAfterFirstColon ==
    /\ Extracting =>
           \A i \in 1..Len(Returned) :
               HasColon(SourceOf(i).title) =>
                   Returned[i].stationName
                       = Some(Strip(AfterFirstColon(SourceOf(i).title)))
    /\ (op = "stations" /\ result.kind = "list") =>
           \A i \in 1..Len(Entries) :
               Extract(Entries[i]).kind = "record" =>
                   Some(result.val[i]) = Extract(Entries[i]).val.stationName
    /\ (op = "observed_data_by_station" /\ result.kind = "record") =>
           result.val.stationName = arg

\* C5. Every record returned has a stationName that is trimmed and not
\* empty.
NameTrimmedNonEmpty ==
    Extracting =>
        \A i \in 1..Len(Returned) :
            LET name == Returned[i].stationName[1]
            IN  /\ name # Empty
                /\ Head(name) # " "
                /\ name[Len(name)] # " "

\* The positions of the entries whose title yields the station name.
Matching(stationName) ==
    {i \in 1..Len(Entries) :
        StationName(Entries[i].title) =
            [ok |-> TRUE, err |-> IndexError, v |-> stationName]}

First(S) == CHOOSE i \in S : \A j \in S : i <= j

TitlesHaveColon(n) == \A i \in 1..n : HasColon(Entries[i].title)

\* C6. When every title has a colon, stations() returns as many names as
\* there are entries, the i-th being the trimmed name of the i-th entry (the
\* one the extractor gives it), in feed order and with repeats kept.
StationsOnePerEntry ==
    (op = "stations" /\ Parsed /\ TitlesHaveColon(Len(Entries))) =>
        /\ result.kind = "list"
        /\ Len(result.val) = Len(Entries)
        /\ \A i \in 1..Len(Entries) :
               /\ result.val[i] = Strip(Split(Entries[i].title, ":")[2])
               /\ Extract(Entries[i]).kind = "record" =>
                      Some(result.val[i]) = Extract(Entries[i]).val.stationName

\* C6 witness: two entries share a name and it is listed twice.
StationsRepeatSeen ==
    /\ op = "stations"
    /\ Parsed
    /\ Len(Entries) = 2
    /\ Entries[1].title # Entries[2].title
    /\ result = Return("list", <<Nis, Nis>>)

\* The feed with one summary in place of every summary.
WithSummary(entries, summary) ==
    [i \in 1..Len(entries) |-> Entry(entries[i].title, summary)]

\* C7. stations() reads titles only: when every title has a colon it
\* succeeds and returns what it returns for the same titles over any other
\* summaries, also when some entry would not extract.
StationsIgnoreSummaries ==
    (op = "stations" /\ Parsed /\ TitlesHaveColon(Len(Entries))) =>
        /\ result.kind = "list"
        /\ \A summary \in {SummaryGood, SummaryThreeSegments, Empty} :
               result = StationsOf(WithSummary(Entries, summary)).out
        /\ result.val = [i \in 1..Len(Entries) |->
                             Strip(Split(Entries[i].title, ":")[2])]

\* C7 witness: stations() listed a feed in which an entry does not extract.
StationsOverMalformedSeen ==
    /\ op = "stations"
    /\ Parsed
    /\ result.kind = "list"
    /\ Len(result.val) = 2
    /\ Extract(Entries[1]) = Raise(IndexError)
    /\ Extract(Entries[2]) = Raise(ValueError)

\* C8. Whatever the entries look like, when no title yields the name asked
\* for, observed_data_by_station() returns None, neither a record nor an
\* error.
NotFoundWhateverTheEntries ==
    (op = "observed_data_by_station" /\ Parsed /\ Matching(arg[1]) = {}) =>
        result = Return("none", None)

FullEntry(entry) ==
    HasColon(entry.title) /\ Len(Split(entry.summary, ";")) >= 9

\* C11. The extractor returns a record only for an entry whose title has a
\* colon and whose summary splits on ';' into at least 9 segments; on an
\* entry with a colonless title, or with fewer than 9 segments, it fails with
\* the error of a missing piece (IndexError) and no record is returned.
ExtractNeedsFullEntry ==
    (Extracting /\ Parsed) =>
        /\ \A i \in 1..Len(Returned) : FullEntry(SourceOf(i))
        /\ \A j \in 1..Len(extracted) :
               ~FullEntry(Entries[extracted[j]]) => result = Raise(IndexError)

\* C11 witness: the extractor ran on an entry whose title has no colon and
\* whose summary is well formed, and failed.
ColonlessTitleSeen ==
    /\ op = "observed_data"
    /\ Parsed
    /\ extracted = <<1>>
    /\ Entries[1] = Entry(TitleNoColon, SummaryGood)
    /\ result = Raise(IndexError)

\* A run of the FetchData action that has come to its end.
FetchRan ==
    /\ action # None
    /\ action[1].class = "FetchData"
    /\ ended # "no"

Kinds(lines) == [i \in 1..Len(lines) |-> lines[i].kind]

CalledNames == [i \in 1..Len(calls) |-> calls[i].name]

\* A query of the run came back with an exception.
QueryFailed == \E i \in 1..Len(calls) : calls[i].kind = "error"

\* The lookup of the run returned None.
LookupNotFound ==
    /\ Len(calls) >= 2
    /\ calls[2].name = "observed_data_by_station"
    /\ calls[2].kind = "none"

\* The names in the lines after the first two.
ListedNames ==
    [i \in 1..(Len(printed) - 3) |-> printed[i + 2].args[1]]

Ordered(texts) ==
    \A i \in 1..Len(texts) : \A j \in i..Len(texts) :
        ~TextLess(texts[j], texts[i])

Times(texts, x) == Cardinality({i \in 1..Len(texts) : texts[i] = x})

SameTexts(a, b) ==
    /\ Len(a) = Len(b)
    /\ \A i \in 1..Len(a) : Times(a, a[i]) = Times(b, a[i])

\* C12. A run of FetchData.execute calls parse() first; with a non-zero
\* status it prints one error line and exits, having called neither
\* stations() nor observed_data_by_station(); when a query fails on a
\* malformed entry the run likewise ends in an exit with one diagnostic line
\* and no name or record line; when the lookup returns None the two message
\* lines are followed by every station name of the feed, sorted.
FetchRunReportsFailures ==
    FetchRan =>
        /\ calls # <<>>
        /\ calls[1].name = "parse"
        /\ status # Some(0) =>
               /\ CalledNames = <<"parse">>
               /\ Kinds(printed) = <<"error">>
               /\ ended = "exit"
        /\ QueryFailed =>
               /\ ended = "exit"
               /\ Kinds(printed) = <<"error">>
        /\ LookupNotFound =>
               /\ Len(printed) >= 3
               /\ SubSeq(Kinds(printed), 1, 2)
                      = <<"not available", "available for">>
               /\ printed[1].args = calls[2].arg
               /\ Kinds(SubSeq(printed, 3, Len(printed) - 1))
                      = [i \in 1..(Len(printed) - 3) |-> "name"]
               /\ printed[Len(printed)] = Blank
               /\ Ordered(ListedNames)
               /\ SameTexts(ListedNames,
                            [i \in 1..Len(Entries) |->
                                 StationName(Entries[i].title).v])
               /\ ended = "exit"

Querying == op \in {"stations", "observed_data", "observed_data_by_station"}

\* The last query handed back station data (a record, or a list that is not
\* empty).
ReturnedData ==
    /\ Querying
    /\ \/ result.kind = "record"
       \/ result.kind \in {"list", "records"} /\ result.val # <<>>

\* What each query computes from the entries of the latest fetch.
Answer ==
    IF op = "stations" THEN StationsOf(Entries)
    ELSE IF op = "observed_data" THEN ObservedDataOf(Entries)
    ELSE ByStation(Entries, arg[1])

\* C13. Across parse() and update() calls: status is unset exactly until the
\* first fetch and afterwards is the latest fetch's flag (0 for success); a
\* query is answered from the entries of the latest fetch alone; before the
\* first fetch no query returns data; and the object holds station data only
\* after a successful fetch.
FeedLifecycle ==
    /\ (status = None) <=> (feed = None)
    /\ status \in {None, Some(0), Some(1)}
    /\ (Querying /\ ~Parsed) => result.kind = "error"
    /\ (Querying /\ Parsed) => (result = Answer.out /\ extracted = Answer.ran)
    /\ ReturnedData => status = Some(0)

\* What the command line of the run asked for.
StationAlone ==
    /\ arguments[1].station # None
    /\ ~arguments[1].usage
    /\ ~arguments[1].version
    /\ ~arguments[1].list_stations

\* C14. Whenever --station S is given without --usage, --version or
\* --list-stations, the run is a FetchData that, once the fetch succeeded,
\* calls observed_data_by_station(S) with exactly S, whatever the text S; and
\* a run goes from parse() straight to stations(), the listing mode, only
\* when --list-stations was given.
StationMeansLookup ==
    (arguments # None /\ StationAlone) =>
        /\ action[1].class = "FetchData"
        /\ (ended # "no" /\ status = Some(0)) =>
               /\ Len(calls) >= 2
               /\ calls[2].name = "observed_data_by_station"
               /\ calls[2].arg = arguments[1].station

====
